---------------------------- MODULE Spec2Model ----------------------------
(***************************************************************************)
(* A model of the fizzicks 3D point/vector algebra (src/fizzicks.py) and   *)
(* of its older variant with the free-fall script (src/classes.py).        *)
(*                                                                         *)
(* Objects live in a heap (a sequence of records, an object's identity is  *)
(* its index), so that "returns a new object" and "mutates the receiver"   *)
(* are different outcomes.  Every method is an operator from the heap and  *)
(* its arguments to the heap after the call and the value returned (or the *)
(* exception raised).                                                      *)
(*                                                                         *)
(* Numbers are exact: a component is a rational <<n, d>> in lowest terms,  *)
(* and a magnitude, the result of sqrt, is a surd c * sqrt(r) with c a     *)
(* rational and r a square-free natural.  Python's int arithmetic is exact *)
(* as well; its float rounding is not modelled.                            *)
(***************************************************************************)
EXTENDS Integers, Sequences, FiniteSets, TLC

VARIABLES
    heap,     \* every object constructed so far; an object's id is its index
    held,     \* the ids the calling script holds a reference to
    call,     \* the last call made: its method, receiver and argument
    ret,      \* what that call returned or raised
    ball,     \* the script's name ball: the id of a Physical_Object, or 0
    gravity,  \* the script's name gravity: the id of a Vector, or 0
    counter,  \* the script's tick counter
    ncalls,   \* the number of calls the script has made
    pc        \* the script's position

vars == <<heap, held, call, ret, ball, gravity, counter, ncalls, pc>>

(***************************************************************************)
(* Bounds of the model.                                                    *)
(***************************************************************************)
\* integer components of the input Points and Vectors range over -1..MaxC
MaxC == 1
\* masses of a Physical_Object range over 1..MaxMass
MaxMass == 3
\* a sequence of calls is at most MaxCalls calls long
MaxCalls == 2
\* the ball of the free-fall script starts at a height in 1..MaxY
MaxY == 3
\* its upward velocity ranges over -1..MaxV, gravity's pull over 1..MaxG
MaxV == 2
MaxG == 2

Comp == -1 .. MaxC

(***************************************************************************)
(* Exact arithmetic.                                                       *)
(***************************************************************************)
Abs(n) == IF n < 0 THEN -n ELSE n

RECURSIVE GCD(_, _)
GCD(a, b) == IF b = 0 THEN a ELSE GCD(b, a % b)

\* the rational n/d (d # 0) in lowest terms with a positive denominator
Rat(n, d) ==
    LET s == IF d < 0 THEN -1 ELSE 1
        g == GCD(Abs(n), Abs(d))
    IN  <<(s * n) \div g, (s * d) \div g>>

R(n) == <<n, 1>>
RZero == R(0)
\* sums are taken over the least common denominator
LCM(a, b) == (a \div GCD(a, b)) * b
RAdd(a, b) ==
    LET l == LCM(a[2], b[2])
    IN  Rat(a[1] * (l \div a[2]) + b[1] * (l \div b[2]), l)
RNeg(a) == <<-a[1], a[2]>>
RSub(a, b) == RAdd(a, RNeg(b))
\* products are reduced crosswise before multiplying
RMul(a, b) ==
    LET g == GCD(Abs(a[1]), b[2])
        h == GCD(Abs(b[1]), a[2])
    IN  Rat((a[1] \div g) * (b[1] \div h), (a[2] \div h) * (b[2] \div g))
\* a / b for b # 0
RDiv(a, b) == RMul(a, Rat(b[2], b[1]))

\* the integer square root of m >= 0, searched between lo and hi
RECURSIVE IsqrtIn(_, _, _)
IsqrtIn(m, lo, hi) ==
    IF lo >= hi THEN lo
    ELSE LET mid == (lo + hi + 1) \div 2
         IN  IF mid * mid <= m THEN IsqrtIn(m, mid, hi)
             ELSE IsqrtIn(m, lo, mid - 1)

Isqrt(m) == IsqrtIn(m, 0, IF m < 46340 THEN m ELSE 46340)

\* the element of a one-element set; {e(x) : x \in {v}} computes v once
Once(S) == CHOOSE v \in S : TRUE

\* the largest s with s * s dividing m (m >= 1)
SquarePart(m) ==
    Once({CHOOSE s \in 1 .. q :
              /\ m % (s * s) = 0
              /\ \A t \in s + 1 .. q : m % (t * t) # 0 :
            q \in {Isqrt(m)}})

\* (g / l) * sqrt(m) as a surd in normal form, s being the square part of m
sqrt_times(m, s, g, l) == [c |-> Rat(g * s, l), r |-> m \div (s * s)]

\* sqrt(a^2 + b^2 + c^2) / l for integers a, b, c, of which g is the gcd
sqrt_of_integers(a, b, c, g, l) ==
    IF g = 0 THEN [c |-> RZero, r |-> 1]
    ELSE Once({sqrt_times(m, SquarePart(m), g, l) :
                 m \in {(a \div g) * (a \div g) + (b \div g) * (b \div g)
                          + (c \div g) * (c \div g)}})

\* sqrt(i^2 + j^2 + k^2) for rationals of which l is a common denominator
sqrt_over(i, j, k, l) ==
    Once({Once({sqrt_of_integers(n[1], n[2], n[3], g, l) :
                  g \in {GCD(GCD(Abs(n[1]), Abs(n[2])), Abs(n[3]))}}) :
            n \in {<<i[1] * (l \div i[2]), j[1] * (l \div j[2]),
                     k[1] * (l \div k[2])>>}})

\* math.sqrt(i**2 + j**2 + k**2) of rationals, as a surd in normal form: with
\* i, j, k = a/l, b/l, c/l and g the gcd of a, b, c it is
\* (g / l) * sqrt((a/g)^2 + (b/g)^2 + (c/g)^2)
sqrt_of_squares(i, j, k) ==
    Once({Once({sqrt_over(v[1], v[2], v[3], l) :
                  l \in {LCM(LCM(v[1][2], v[2][2]), v[3][2])}}) :
            v \in {<<i, j, k>>}})

SurdOfRat(q) == [c |-> q, r |-> 1]
SurdIsZero(a) == a.c[1] = 0
\* a ** 2
SurdSquare(a) == RMul(RMul(a.c, a.c), R(a.r))
\* a / b for b # 0:  (c1 sqrt r1) / (c2 sqrt r2) = c1 / (c2 r2) * sqrt(r1 r2),
\* and r1 r2 = g^2 (r1/g) (r2/g) for g the gcd of the square-free r1 and r2
SurdDiv(a, b) ==
    IF a.c[1] = 0 THEN [c |-> RZero, r |-> 1]
    ELSE LET g == GCD(a.r, b.r)
         IN  [c |-> RMul(RDiv(a.c, RMul(b.c, R(b.r))), R(g)),
              r |-> (a.r \div g) * (b.r \div g)]

\* round(q, 3): the nearest multiple of 1/1000, a tie going to the even one
Round3(q) ==
    LET n   == q[1] * 1000
        fl  == n \div q[2]
        rem == n - fl * q[2]
        k   == IF 2 * rem < q[2] THEN fl
               ELSE IF 2 * rem > q[2] THEN fl + 1
               ELSE IF fl % 2 = 0 THEN fl ELSE fl + 1
    IN  Rat(k, 1000)

(***************************************************************************)
(* What a call hands back: a reference, a number, a plain value (True,     *)
(* None) or an exception.                                                  *)
(***************************************************************************)
Ref(id) == [kind |-> "ref", id |-> id]
Num(a) == [kind |-> "num", val |-> a]
Val(v) == [kind |-> "val", val |-> v]
Raise(e) == [kind |-> "raise", exc |-> e]

Out(h, r) == [heap |-> h, ret |-> r]
Raised(o) == o.ret.kind = "raise"

\* a constructor call: the new object gets the next id
Alloc(h, obj) == Out(Append(h, obj), Ref(Len(h) + 1))

(***************************************************************************)
(* class Point                                                             *)
(***************************************************************************)
Point(h, x, y, z, width, height, depth) ==
    Alloc(h, [cls |-> "Point", x |-> x, y |-> y, z |-> z, xyz |-> <<x, y, z>>,
              collision_zone_width |-> width,
              collision_zone_height |-> height,
              collision_zone_depth |-> depth])

\* Point(x, y, z) with the default extents
Point3(h, x, y, z) == Point(h, x, y, z, R(1), R(1), R(1))

\* src/classes.py: a Point has no collision zone
classes_Point(h, x, y, z) ==
    Alloc(h, [cls |-> "Point", x |-> x, y |-> y, z |-> z, xyz |-> <<x, y, z>>])

(***************************************************************************)
(* class Vector                                                            *)
(***************************************************************************)
Vector(h, i, j, k) ==
    Alloc(h, [cls |-> "Vector", i |-> i, j |-> j, k |-> k, ijk |-> <<i, j, k>>,
              magnitude |-> sqrt_of_squares(i, j, k)])

\* a slip in calculateVectorFrom: the operands the other way round
Point_calculateVectorFrom_reversed(h, self, point) ==
    Vector(h, RSub(h[point].x, h[self].x),
              RSub(h[point].y, h[self].y),
              RSub(h[point].z, h[self].z))

Point_calculateVectorFrom(h, self, point) ==
    Vector(h, RSub(h[self].x, h[point].x),
              RSub(h[self].y, h[point].y),
              RSub(h[self].z, h[point].z))

Point_addVector(h, self, vector) ==
    LET x == RAdd(h[self].x, h[vector].i)
        y == RAdd(h[self].y, h[vector].j)
        z == RAdd(h[self].z, h[vector].k)
    IN  Point3(h, x, y, z)

classes_Point_addVector(h, self, vector) ==
    LET x == RAdd(h[self].x, h[vector].i)
        y == RAdd(h[self].y, h[vector].j)
        z == RAdd(h[self].z, h[vector].k)
    IN  classes_Point(h, x, y, z)

Point_subtractVector(h, self, vector) ==
    LET x == RSub(h[self].x, h[vector].i)
        y == RSub(h[self].y, h[vector].j)
        z == RSub(h[self].z, h[vector].k)
    IN  Point3(h, x, y, z)

\* the one mutator: resets the receiver's coordinates and its tuple view
Point_setPoint(h, self, x, y, z) ==
    Out([h EXCEPT ![self].x = x, ![self].y = y, ![self].z = z,
                  ![self].xyz = <<x, y, z>>],
        Val("True"))

Vector_subtractVector(h, self, vector) ==
    Vector(h, RSub(h[self].i, h[vector].i),
              RSub(h[self].j, h[vector].j),
              RSub(h[self].k, h[vector].k))

\* a slip in addVector: the receiver is updated in place and returned
Vector_addVector_in_place(h, self, vector) ==
    Out([h EXCEPT ![self].i = RAdd(h[self].i, h[vector].i),
                  ![self].j = RAdd(h[self].j, h[vector].j),
                  ![self].k = RAdd(h[self].k, h[vector].k)],
        Ref(self))

Vector_addVector(h, self, vector) ==
    Vector(h, RAdd(h[self].i, h[vector].i),
              RAdd(h[self].j, h[vector].j),
              RAdd(h[self].k, h[vector].k))

\* matrix[x][c] of a list of lists, x and c counted from 0 as in the source;
\* an index past the end raises IndexError
HasIndex(seq, n) == n + 1 <= Len(seq)

\* the loop "for x in range(3)": value_list after the rows x, x+1, .. 2
RECURSIVE linearTransform_loop(_, _, _, _)
linearTransform_loop(v, matrix, x, value_list) ==
    IF x = 3 THEN [ok |-> TRUE, value_list |-> value_list]
    ELSE IF ~HasIndex(matrix, x) THEN [ok |-> FALSE, exc |-> "IndexError"]
    ELSE IF ~HasIndex(matrix[x + 1], 0) \/ ~HasIndex(matrix[x + 1], 1)
             \/ ~HasIndex(matrix[x + 1], 2)
         THEN [ok |-> FALSE, exc |-> "IndexError"]
    ELSE LET i == RMul(matrix[x + 1][1], v.i)
             j == RMul(matrix[x + 1][2], v.j)
             k == RMul(matrix[x + 1][3], v.k)
         IN  linearTransform_loop(v, matrix, x + 1,
                                  Append(value_list, RAdd(RAdd(i, j), k)))

\* linearTransform hardened: any matrix that is not 3 rows of 3 is refused
Vector_linearTransform_strict(h, self, matrix) ==
    LET l == linearTransform_loop(h[self], matrix, 0, <<>>)
    IN  IF Len(matrix) # 3 \/ \E r \in 1 .. Len(matrix) : Len(matrix[r]) # 3
        THEN Out(h, Raise("DimensionMismatch"))
        ELSE Vector(h, l.value_list[1], l.value_list[2], l.value_list[3])

\* a slip in linearTransform: the matrix is read by columns, matrix[c][x]
Vector_linearTransform_by_columns(h, self, matrix) ==
    LET l == linearTransform_loop(h[self], matrix, 0, <<>>)
        col(x) == RAdd(RAdd(RMul(matrix[1][x], h[self].i),
                            RMul(matrix[2][x], h[self].j)),
                       RMul(matrix[3][x], h[self].k))
    IN  IF ~l.ok THEN Out(h, Raise(l.exc))
        ELSE Vector(h, col(1), col(2), col(3))

Vector_linearTransform(h, self, matrix) ==
    LET l == linearTransform_loop(h[self], matrix, 0, <<>>)
    IN  IF ~l.ok THEN Out(h, Raise(l.exc))
        ELSE Vector(h, l.value_list[1], l.value_list[2], l.value_list[3])

\* cos and sin of an angle given in quarter turns (0, pi/2, pi, 3pi/2)
cos(a) == R(<<1, 0, -1, 0>>[(a % 4) + 1])
sin(a) == R(<<0, 1, 0, -1>>[(a % 4) + 1])

Vector_rotate(h, self, x_angle, y_angle, z_angle) ==
    LET temp_vector == Vector(h, h[self].i, h[self].j, h[self].k)
        rotation_matrix_x == << <<R(1), R(0), R(0)>>,
                                <<R(0), cos(x_angle), RNeg(sin(x_angle))>>,
                                <<R(0), sin(x_angle), cos(x_angle)>> >>
        rotation_matrix_y == << <<cos(y_angle), R(0), sin(y_angle)>>,
                                <<R(0), R(1), R(0)>>,
                                <<RNeg(sin(y_angle)), R(0), cos(y_angle)>> >>
        rotation_matrix_z == << <<cos(z_angle), RNeg(sin(z_angle)), R(0)>>,
                                <<sin(z_angle), cos(z_angle), R(0)>>,
                                <<R(0), R(0), R(1)>> >>
        \* "Should actually be the product of r_m_x, r_m_y, r_m_z"
        rotation_matrix == << <<R(1), R(1), R(1)>>,
                              <<R(1), R(1), R(1)>>,
                              <<R(1), R(1), R(1)>> >>
    IN  Vector_linearTransform(temp_vector.heap, temp_vector.ret.id,
                               rotation_matrix)

\* vector is an argument as passed: Ref(id) or Num(a), a a rational number.
\* The try block reads vector.i: an argument without that attribute (a
\* number) raises AttributeError, and the bare except multiplies by the
\* argument itself
Vector_scale(h, self, vector) ==
    IF vector.kind = "ref" /\ h[vector.id].cls = "Vector"
    THEN Vector(h, RMul(h[self].i, h[vector.id].i),
                   RMul(h[self].j, h[vector.id].j),
                   RMul(h[self].k, h[vector.id].k))
    ELSE IF vector.kind = "num"
    THEN Vector(h, RMul(h[self].i, vector.val.c),
                   RMul(h[self].j, vector.val.c),
                   RMul(h[self].k, vector.val.c))
    ELSE Out(h, Raise("TypeError"))

dot(a, b) == RAdd(RAdd(RMul(a.i, b.i), RMul(a.j, b.j)), RMul(a.k, b.k))

Vector_dotProduct(h, self, vector) ==
    Out(h, Num(SurdOfRat(dot(h[self], h[vector]))))

Vector_crossProduct(h, self, vector) ==
    LET i == RSub(RMul(h[self].j, h[vector].k), RMul(h[self].k, h[vector].j))
        j == RSub(RMul(h[self].k, h[vector].i), RMul(h[self].i, h[vector].k))
        k == RSub(RMul(h[self].i, h[vector].j), RMul(h[self].j, h[vector].i))
    IN  Vector(h, i, j, k)

\* a division that answers 0 for a zero divisor instead of raising
Divide_or_zero(h, a, b) ==
    IF SurdIsZero(b) THEN Out(h, Num(SurdOfRat(RZero)))
    ELSE Out(h, Num(SurdDiv(a, b)))

\* Python's a / b on numbers: ZeroDivisionError when b is zero
Divide(h, a, b) ==
    IF SurdIsZero(b) THEN Out(h, Raise("ZeroDivisionError"))
    ELSE Out(h, Num(SurdDiv(a, b)))

Vector_scalarProjectionOnVector(h, self, vector) ==
    Divide(h, SurdOfRat(dot(h[self], h[vector])), h[vector].magnitude)

Vector_vectorProjectionOnVector(h, self, vector) ==
    LET sp == Vector_scalarProjectionOnVector(h, self, vector)
    IN  IF Raised(sp) THEN sp
        ELSE LET q == Divide(h, sp.ret.val, h[vector].magnitude)
             IN  IF Raised(q) THEN q
                 ELSE LET scalar == q.ret.val.c
                          scalar_vector == Vector(h, scalar, scalar, scalar)
                      IN  Vector_scale(scalar_vector.heap, vector,
                                       scalar_vector.ret)

\* src/classes.py: the same division
classes_Vector_scalarProjectionOnVector(h, self, vector) ==
    Divide(h, SurdOfRat(dot(h[self], h[vector])), h[vector].magnitude)

\* src/classes.py: the scalar is dot / magnitude**2, rounded to 3 decimals
classes_Vector_vectorProjectionOnVector(h, self, vector) ==
    LET q == Divide(h, SurdOfRat(dot(h[self], h[vector])),
                    SurdOfRat(SurdSquare(h[vector].magnitude)))
    IN  IF Raised(q) THEN q
        ELSE LET scalar == Round3(q.ret.val.c)
                 scalar_vector == Vector(h, scalar, scalar, scalar)
             IN  Vector_scale(scalar_vector.heap, vector, scalar_vector.ret)

(***************************************************************************)
(* class Physical_Object                                                   *)
(***************************************************************************)
Physical_Object(h, mass, position, velocity, restitution) ==
    Alloc(h, [cls |-> "Physical_Object", mass |-> mass, position |-> position,
              velocity |-> velocity, restitution |-> restitution])

\* src/classes.py: no restitution
classes_Physical_Object(h, mass, position, velocity) ==
    Alloc(h, [cls |-> "Physical_Object", mass |-> mass, position |-> position,
              velocity |-> velocity])

Physical_Object_move(h, self) ==
    LET p == Point_addVector(h, h[self].position, h[self].velocity)
    IN  Out([p.heap EXCEPT ![self].position = p.ret.id], Val("None"))

\* a slip in move: the position Point itself is moved
classes_Physical_Object_move_in_place(h, self) ==
    LET p == h[h[self].position]
        v == h[h[self].velocity]
    IN  Out(Point_setPoint(h, h[self].position, RAdd(p.x, v.i), RAdd(p.y, v.j),
                           RAdd(p.z, v.k)).heap,
            Val("True"))

classes_Physical_Object_move(h, self) ==
    LET p == classes_Point_addVector(h, h[self].position, h[self].velocity)
    IN  Out([p.heap EXCEPT ![self].position = p.ret.id], Val("True"))

Physical_Object_updateVelocity(h, self, velocity_change) ==
    LET v == Vector_addVector(h, h[self].velocity, velocity_change)
    IN  Out([v.heap EXCEPT ![self].velocity = v.ret.id], Val("None"))

classes_Physical_Object_accelerate(h, self, accelerationVector) ==
    LET v == Vector_addVector(h, h[self].velocity, accelerationVector)
    IN  Out([v.heap EXCEPT ![self].velocity = v.ret.id], Val("True"))

Physical_Object_calculateAcceleration(h, self, force_vector) ==
    LET inv == Divide(h, SurdOfRat(R(1)), SurdOfRat(h[self].mass))
    IN  IF Raised(inv) THEN inv
        ELSE Vector_scale(h, force_vector, inv.ret)

classes_Physical_Object_calculateAcceleration(h, self, forceVector) ==
    Vector_scale(h, forceVector, Num(SurdOfRat(h[self].mass)))

(***************************************************************************)
(* The calling script: it holds references, makes a call, keeps what the   *)
(* call returns.                                                           *)
(***************************************************************************)
VectorsIn(h, S) == {id \in S : h[id].cls = "Vector"}
PointsIn(h, S) == {id \in S : h[id].cls = "Point"}
ObjectsIn(h, S) == {id \in S : h[id].cls = "Physical_Object"}

\* the scalar arguments tried for scale: the integers of Comp and 1/2
Scalars == {R(n) : n \in Comp} \cup {<<1, 2>>}
\* the angle triples tried for rotate, in quarter turns
Angles == {<<0, 0, 0>>, <<0, 1, 0>>, <<1, 2, 3>>}
\* the coordinate triples tried for setPoint
Coords == {<<R(a), R(a + 1), R(-a)>> : a \in Comp}

\* the row lengths of the matrices tried for linearTransform: 3 rows of 3
\* entries, and the ways of having a row or an entry too few or too many
Shapes ==
    { <<3, 3, 3>>,
      <<3, 3>>, <<3, 3, 3, 3>>, <<3, 3, 3, 2>>,
      <<2, 3, 3>>, <<3, 2, 3>>, <<3, 3, 2>>,
      <<4, 3, 3>>, <<3, 4, 3>>, <<3, 3, 4>>,
      <<2, 2>>, <<4, 4, 4, 4>> }

\* a row of n entries from a component tuple t
Row(t, n) == IF n = 2 THEN <<t[1], t[2]>>
             ELSE IF n = 3 THEN t
             ELSE Append(t, t[1])

\* a matrix of that shape: its rows are the component tuples of the held
\* Vectors, taken in turn
MatrixOf(h, S, lens) ==
    LET vs == VectorsIn(h, S)
        nth(r) == CHOOSE id \in vs :
                     Cardinality({j \in vs : j < id})
                        = (r - 1) % Cardinality(vs)
    IN  [r \in DOMAIN lens |-> Row(h[nth(r)].ijk, lens[r])]

\* the script may make a call: its one call, or one of a sequence of at most
\* MaxCalls calls
CanCall == (pc = "call" /\ ncalls < 1) \/ (pc = "calls" /\ ncalls < MaxCalls)

\* the call c is made and ends as o; the script keeps the object returned
Do(c, o) ==
    /\ CanCall
    /\ heap' = o.heap
    /\ ret' = o.ret
    /\ call' = c
    /\ held' = IF o.ret.kind = "ref" THEN held \cup {o.ret.id} ELSE held
    /\ ncalls' = ncalls + 1
    /\ UNCHANGED <<ball, gravity, counter, pc>>

Call(op, self, arg) == [op |-> op, self |-> self, arg |-> arg]

CalculateVectorFrom ==
    \E self \in PointsIn(heap, held), point \in PointsIn(heap, held) :
        Do(Call("Point.calculateVectorFrom", self, Ref(point)),
           Point_calculateVectorFrom(heap, self, point))

PointAddVector ==
    \E self \in PointsIn(heap, held), vector \in VectorsIn(heap, held) :
        Do(Call("Point.addVector", self, Ref(vector)),
           Point_addVector(heap, self, vector))

PointSubtractVector ==
    \E self \in PointsIn(heap, held), vector \in VectorsIn(heap, held) :
        Do(Call("Point.subtractVector", self, Ref(vector)),
           Point_subtractVector(heap, self, vector))

SetPoint ==
    \E self \in PointsIn(heap, held), c \in Coords :
        Do(Call("Point.setPoint", self, c),
           Point_setPoint(heap, self, c[1], c[2], c[3]))

\* the expression O.addVector(P.calculateVectorFrom(O)), self being O
RoundTrip ==
    \E O \in PointsIn(heap, held), P \in PointsIn(heap, held) :
        LET v == Point_calculateVectorFrom(heap, P, O)
        IN  Do(Call("roundTrip", O, Ref(P)),
               Point_addVector(v.heap, O, v.ret.id))

VectorSubtractVector ==
    \E self \in VectorsIn(heap, held), vector \in VectorsIn(heap, held) :
        Do(Call("Vector.subtractVector", self, Ref(vector)),
           Vector_subtractVector(heap, self, vector))

VectorAddVector ==
    \E self \in VectorsIn(heap, held), vector \in VectorsIn(heap, held) :
        Do(Call("Vector.addVector", self, Ref(vector)),
           Vector_addVector(heap, self, vector))

LinearTransform ==
    \E self \in VectorsIn(heap, held), lens \in Shapes :
        LET matrix == MatrixOf(heap, held, lens)
        IN  Do(Call("Vector.linearTransform", self, matrix),
               Vector_linearTransform(heap, self, matrix))

Rotate ==
    \E self \in VectorsIn(heap, held), a \in Angles :
        Do(Call("Vector.rotate", self, a),
           Vector_rotate(heap, self, a[1], a[2], a[3]))

ScaleByVector ==
    \E self \in VectorsIn(heap, held), vector \in VectorsIn(heap, held) :
        Do(Call("Vector.scale", self, Ref(vector)),
           Vector_scale(heap, self, Ref(vector)))

ScaleByNumber ==
    \E self \in VectorsIn(heap, held), q \in Scalars :
        Do(Call("Vector.scale", self, Num(SurdOfRat(q))),
           Vector_scale(heap, self, Num(SurdOfRat(q))))

DotProduct ==
    \E self \in VectorsIn(heap, held), vector \in VectorsIn(heap, held) :
        Do(Call("Vector.dotProduct", self, Ref(vector)),
           Vector_dotProduct(heap, self, vector))

CrossProduct ==
    \E self \in VectorsIn(heap, held), vector \in VectorsIn(heap, held) :
        Do(Call("Vector.crossProduct", self, Ref(vector)),
           Vector_crossProduct(heap, self, vector))

ScalarProjectionOnVector ==
    \E self \in VectorsIn(heap, held), vector \in VectorsIn(heap, held) :
        Do(Call("Vector.scalarProjectionOnVector", self, Ref(vector)),
           Vector_scalarProjectionOnVector(heap, self, vector))

VectorProjectionOnVector ==
    \E self \in VectorsIn(heap, held), vector \in VectorsIn(heap, held) :
        Do(Call("Vector.vectorProjectionOnVector", self, Ref(vector)),
           Vector_vectorProjectionOnVector(heap, self, vector))

ClassesScalarProjectionOnVector ==
    \E self \in VectorsIn(heap, held), vector \in VectorsIn(heap, held) :
        Do(Call("classes.Vector.scalarProjectionOnVector", self, Ref(vector)),
           classes_Vector_scalarProjectionOnVector(heap, self, vector))

ClassesVectorProjectionOnVector ==
    \E self \in VectorsIn(heap, held), vector \in VectorsIn(heap, held) :
        Do(Call("classes.Vector.vectorProjectionOnVector", self, Ref(vector)),
           classes_Vector_vectorProjectionOnVector(heap, self, vector))

(***************************************************************************)
(* Spec: two objects are constructed from integer components, and one call *)
(* is made on them.                                                        *)
(***************************************************************************)
NoCall == Call("none", 0, <<>>)

\* the heap after constructing the objects of the sequence cs one by one;
\* c is <<"Vector", i, j, k>> or <<"Point", x, y, z>>
RECURSIVE Construct(_, _)
Construct(h, cs) ==
    IF cs = <<>> THEN h
    ELSE LET c == Head(cs)
             o == IF c[1] = "Vector" THEN Vector(h, R(c[2]), R(c[3]), R(c[4]))
                  ELSE Point3(h, R(c[2]), R(c[3]), R(c[4]))
         IN  Construct(o.heap, Tail(cs))

Classes == {<<"Vector", "Vector">>, <<"Point", "Point">>, <<"Point", "Vector">>}

Init ==
    /\ \E cl \in Classes, a \in Comp \X Comp \X Comp, b \in Comp \X Comp \X Comp :
          heap = Construct(<<>>, << <<cl[1], a[1], a[2], a[3]>>,
                                    <<cl[2], b[1], b[2], b[3]>> >>)
    /\ held = {1, 2}
    /\ call = NoCall
    /\ ret = Val("None")
    /\ ball = 0
    /\ gravity = 0
    /\ counter = 0
    /\ ncalls = 0
    /\ pc = "call"

VectorCall ==
    \/ VectorSubtractVector
    \/ VectorAddVector
    \/ LinearTransform
    \/ Rotate
    \/ ScaleByVector
    \/ ScaleByNumber
    \/ DotProduct
    \/ CrossProduct
    \/ ScalarProjectionOnVector
    \/ VectorProjectionOnVector
    \/ ClassesScalarProjectionOnVector
    \/ ClassesVectorProjectionOnVector

PointCall ==
    \/ CalculateVectorFrom
    \/ PointAddVector
    \/ PointSubtractVector
    \/ SetPoint

Next == VectorCall \/ PointCall \/ RoundTrip

Spec == Init /\ [][Next]_vars

(***************************************************************************)
(* SeqSpec: sequences of calls, each on the objects held so far, from a    *)
(* Point and a Vector.                                                     *)
(***************************************************************************)
\* the Vectors a sequence starts from: the script's test_v, the zero Vector
\* and one with three different components
SeqVectors == {<<1, 0, 0>>, <<0, 0, 0>>, <<1, -1, 2>>}

SeqInit ==
    /\ \E v \in SeqVectors :
          heap = Construct(<<>>, << <<"Point", 0, 0, 0>>,
                                    <<"Vector", v[1], v[2], v[3]>> >>)
    /\ held = {1, 2}
    /\ call = NoCall
    /\ ret = Val("None")
    /\ ball = 0
    /\ gravity = 0
    /\ counter = 0
    /\ ncalls = 0
    /\ pc = "calls"

SeqSpec == SeqInit /\ [][Next]_vars

(***************************************************************************)
(* ObjSpec: a Physical_Object of either source file is constructed from a  *)
(* Point, a Vector and a mass, and one of its methods is called.           *)
(***************************************************************************)
\* the object was built by src/classes.py, whose objects have no restitution
IsClasses(h, obj) == "restitution" \notin DOMAIN h[obj]

ObjInit ==
    /\ \E a \in Comp \X Comp \X Comp, b \in Comp \X Comp \X Comp,
          mass \in 1 .. MaxMass :
          \/ LET p == Point3(<<>>, R(a[1]), R(a[2]), R(a[3]))
                 v == Vector(p.heap, R(b[1]), R(b[2]), R(b[3]))
             IN  heap = Physical_Object(v.heap, R(mass), 1, 2, R(1)).heap
          \/ LET p == classes_Point(<<>>, R(a[1]), R(a[2]), R(a[3]))
                 v == Vector(p.heap, R(b[1]), R(b[2]), R(b[3]))
             IN  heap = classes_Physical_Object(v.heap, R(mass), 1, 2).heap
    /\ held = {1, 2, 3}
    /\ call = NoCall
    /\ ret = Val("None")
    /\ ball = 3
    /\ gravity = 2
    /\ counter = 0
    /\ ncalls = 0
    /\ pc = "call"

Move ==
    /\ ~IsClasses(heap, ball)
    /\ Do(Call("Physical_Object.move", ball, <<>>),
          Physical_Object_move(heap, ball))

ClassesMove ==
    /\ IsClasses(heap, ball)
    /\ Do(Call("classes.Physical_Object.move", ball, <<>>),
          classes_Physical_Object_move(heap, ball))

UpdateVelocity ==
    /\ ~IsClasses(heap, ball)
    /\ \E velocity_change \in VectorsIn(heap, held) :
          Do(Call("Physical_Object.updateVelocity", ball, Ref(velocity_change)),
             Physical_Object_updateVelocity(heap, ball, velocity_change))

ClassesAccelerate ==
    /\ IsClasses(heap, ball)
    /\ \E accelerationVector \in VectorsIn(heap, held) :
          Do(Call("classes.Physical_Object.accelerate", ball,
                  Ref(accelerationVector)),
             classes_Physical_Object_accelerate(heap, ball, accelerationVector))

CalculateAcceleration ==
    /\ ~IsClasses(heap, ball)
    /\ \E force_vector \in VectorsIn(heap, held) :
          Do(Call("Physical_Object.calculateAcceleration", ball,
                  Ref(force_vector)),
             Physical_Object_calculateAcceleration(heap, ball, force_vector))

ClassesCalculateAcceleration ==
    /\ IsClasses(heap, ball)
    /\ \E forceVector \in VectorsIn(heap, held) :
          Do(Call("classes.Physical_Object.calculateAcceleration", ball,
                  Ref(forceVector)),
             classes_Physical_Object_calculateAcceleration(heap, ball,
                                                           forceVector))

ObjNext ==
    \/ Move
    \/ ClassesMove
    \/ UpdateVelocity
    \/ ClassesAccelerate
    \/ CalculateAcceleration
    \/ ClassesCalculateAcceleration

ObjSpec == ObjInit /\ [][ObjNext]_vars

(***************************************************************************)
(* SimSpec: the free-fall script, as run by src/classes.py and as written  *)
(* in src/fizzicks.py.  The script's constants (height 50, velocity        *)
(* (30, 10, 0), gravity 9.81, each scaled by the time step) are inputs     *)
(* here: a height in 1..MaxY, a velocity (0..1, -1..MaxV, 0) and a pull of *)
(* gravity in 1..MaxG per tick.  The print calls change nothing.           *)
(***************************************************************************)
RPos(q) == q[1] > 0

\* the script's objects, in the order it constructs them
origin == 1
ball_pos == 3
ball_vel == 4

SimInit ==
    /\ \E y \in 1 .. MaxY, vx \in 0 .. 1, vy \in -1 .. MaxV, g \in 1 .. MaxG :
          \/ LET o  == classes_Point(<<>>, R(0), R(0), R(0))
                 gr == Vector(o.heap, R(0), R(-g), R(0))
                 bp == classes_Point(gr.heap, R(0), R(y), R(0))
                 bv == Vector(bp.heap, R(vx), R(vy), R(0))
             IN  heap = classes_Physical_Object(bv.heap, R(5), bp.ret.id,
                                                bv.ret.id).heap
          \/ LET o  == Point3(<<>>, R(0), R(0), R(0))
                 gr == Vector(o.heap, R(0), R(-g), R(0))
                 bp == Point3(gr.heap, R(0), R(y), R(0))
                 bv == Vector(bp.heap, R(vx), R(vy), R(0))
             IN  heap = Physical_Object(bv.heap, R(5), bp.ret.id, bv.ret.id,
                                        R(1)).heap
    /\ held = {1, 2, 3, 4, 5}
    /\ call = NoCall
    /\ ret = Val("None")
    /\ ball = 5
    /\ gravity = 2
    /\ counter = 0
    /\ ncalls = 0
    /\ pc = "while"

\* a slip in the loop condition: >= for >
LoopCondition_or_equal(h, b) == h[h[b].position].y[1] >= 0

\* while ball.position.y > 0
LoopCondition(h, b) == RPos(h[h[b].position].y)

While ==
    /\ pc = "while"
    /\ pc' = IF LoopCondition(heap, ball) THEN "move" ELSE "done"
    /\ UNCHANGED <<heap, held, call, ret, ball, gravity, counter, ncalls>>

\* the call c ends as o, and the script goes on at next
Step(c, o, next) ==
    /\ heap' = o.heap
    /\ ret' = o.ret
    /\ call' = c
    /\ pc' = next
    /\ ncalls' = ncalls + 1
    /\ UNCHANGED <<held, ball, gravity, counter>>

SimMove ==
    /\ pc = "move"
    /\ IF IsClasses(heap, ball)
       THEN Step(Call("classes.Physical_Object.move", ball, <<>>),
                 classes_Physical_Object_move(heap, ball), "accelerate")
       ELSE Step(Call("Physical_Object.move", ball, <<>>),
                 Physical_Object_move(heap, ball), "accelerate")

SimAccelerate ==
    /\ pc = "accelerate"
    /\ IF IsClasses(heap, ball)
       THEN Step(Call("classes.Physical_Object.accelerate", ball, Ref(gravity)),
                 classes_Physical_Object_accelerate(heap, ball, gravity),
                 "count")
       ELSE Step(Call("Physical_Object.updateVelocity", ball, Ref(gravity)),
                 Physical_Object_updateVelocity(heap, ball, gravity), "count")

Count ==
    /\ pc = "count"
    /\ counter' = counter + 1
    /\ pc' = "while"
    /\ UNCHANGED <<heap, held, call, ret, ball, gravity, ncalls>>

SimNext == While \/ SimMove \/ SimAccelerate \/ Count

\* the script is one sequential thread: its next statement always runs
SimSpec == SimInit /\ [][SimNext]_vars /\ WF_vars(SimNext)

(***************************************************************************)
(* The claims.                                                             *)
(***************************************************************************)
\* i^2 + j^2 + k^2, the squared magnitude of a Vector
SqMag(o) == RAdd(RAdd(RMul(o.i, o.i), RMul(o.j, o.j)), RMul(o.k, o.k))

Is3x3(matrix) == Len(matrix) = 3 /\ \A r \in 1 .. 3 : Len(matrix[r]) = 3

\* row r of matrix times v
RowTimes(matrix, r, v) ==
    RAdd(RAdd(RMul(matrix[r][1], v.i), RMul(matrix[r][2], v.j)),
         RMul(matrix[r][3], v.k))

ProjectionCalls ==
    {"Vector.vectorProjectionOnVector",
     "classes.Vector.vectorProjectionOnVector"}

ZeroDivisionCalls ==
    ProjectionCalls \cup {"Vector.scalarProjectionOnVector",
                          "classes.Vector.scalarProjectionOnVector"}

\* C1: v.rotate(x_angle, y_angle, z_angle) returns a Vector whose squared
\* magnitude i^2 + j^2 + k^2 equals that of v.  (The code applies the
\* all-ones matrix: Vector(1, 0, 0) comes back as Vector(1, 1, 1).)
C1_RotatePreservesMagnitude ==
    call.op = "Vector.rotate" =>
        /\ ret.kind = "ref"
        /\ SqMag(heap[ret.id]) = SqMag(heap[call.self])

\* the result r of projecting v onto other is other scaled by
\* dot(v, other) / magnitude(other)^2:  r_c * |other|^2 = dot(v, other) * other_c
IsProjection(r, v, other) ==
    /\ RMul(r.i, SqMag(other)) = RMul(dot(v, other), other.i)
    /\ RMul(r.j, SqMag(other)) = RMul(dot(v, other), other.j)
    /\ RMul(r.k, SqMag(other)) = RMul(dot(v, other), other.k)

\* C2: for other of nonzero magnitude, v.vectorProjectionOnVector(other) is
\* other scaled by dot(v, other) / magnitude(other)^2, in both source files.
\* (src/classes.py rounds the scalar to 3 decimals first.)
C2_ProjectionIsClosedForm ==
    (/\ call.op \in ProjectionCalls
     /\ ~SurdIsZero(heap[call.arg.id].magnitude)) =>
        /\ ret.kind = "ref"
        /\ IsProjection(heap[ret.id], heap[call.self], heap[call.arg.id])

\* what C2 says holds of src/fizzicks.py alone
FizzicksProjectionIsClosedForm ==
    (/\ call.op = "Vector.vectorProjectionOnVector"
     /\ ~SurdIsZero(heap[call.arg.id].magnitude)) =>
        /\ ret.kind = "ref"
        /\ IsProjection(heap[ret.id], heap[call.self], heap[call.arg.id])

\* C3: a scalar or vector projection onto a Vector of zero magnitude ends in
\* ZeroDivisionError, in both source files; it returns no value.
C3_ZeroMagnitudeRaises ==
    (/\ call.op \in ZeroDivisionCalls
     /\ SurdIsZero(heap[call.arg.id].magnitude)) =>
        ret = Raise("ZeroDivisionError")

\* a nonzero Vector was projected onto a zero one, and the call raised
C3_Witness ==
    /\ call.op = "classes.Vector.vectorProjectionOnVector"
    /\ SurdIsZero(heap[call.arg.id].magnitude)
    /\ ~SurdIsZero(heap[call.self].magnitude)
    /\ ret.kind = "raise"

\* C4, as claimed: linearTransform returns a Vector exactly when the matrix
\* is 3 rows of 3 entries, and raises an error for every other matrix.
C4_RejectsEveryNon3x3 ==
    call.op = "Vector.linearTransform" =>
        /\ Is3x3(call.arg) <=> ret.kind = "ref"
        /\ ~Is3x3(call.arg) => ret.kind = "raise"

\* the matrix lacks one of the entries matrix[0..2][0..2] the loop reads
LacksEntry(matrix) ==
    Len(matrix) < 3 \/ \E r \in 1 .. 3 : Len(matrix[r]) < 3

\* C4, as amended: linearTransform raises IndexError exactly when the matrix
\* has fewer than 3 rows or one of its first 3 rows has fewer than 3
\* entries; otherwise it returns the Vector computed from the first 3
\* entries of the first 3 rows, whatever further rows or entries there are.
C4_RejectsOnlyMissingEntries ==
    call.op = "Vector.linearTransform" =>
        IF LacksEntry(call.arg)
        THEN ret = Raise("IndexError")
        ELSE /\ ret.kind = "ref"
             /\ \A r \in 1 .. 3 :
                   heap[ret.id].ijk[r]
                      = RowTimes(call.arg, r, heap[call.self])

\* a matrix of 4 rows went through and a Vector came back
C4_Witness ==
    /\ call.op = "Vector.linearTransform"
    /\ Len(call.arg) = 4
    /\ ret.kind = "ref"
    /\ ~SurdIsZero(heap[ret.id].magnitude)

\* C6: O.addVector(P.calculateVectorFrom(O)) is a Point with the coordinates
\* of P, another object than P and O, and the two calls change neither.
C6_RoundTrip ==
    [][call'.op = "roundTrip" =>
          LET O == call'.self
              P == call'.arg.id
          IN  /\ ret'.kind = "ref"
              /\ ret'.id \notin {O, P}
              /\ heap'[ret'.id].cls = "Point"
              /\ heap'[ret'.id].x = heap[P].x
              /\ heap'[ret'.id].y = heap[P].y
              /\ heap'[ret'.id].z = heap[P].z
              /\ heap'[ret'.id].xyz = heap[P].xyz
              /\ heap'[P] = heap[P]
              /\ heap'[O] = heap[O]]_vars

\* the round trip was made between two Points that differ in every coordinate
C6_Witness ==
    /\ call.op = "roundTrip"
    /\ ret.kind = "ref"
    /\ \A c \in 1 .. 3 : heap[call.self].xyz[c] # heap[call.arg.id].xyz[c]

\* C7: for a 3x3 matrix M, v.linearTransform(M) returns a new Vector whose
\* component r is M[r][0]*i + M[r][1]*j + M[r][2]*k, v being (i, j, k).
C7_LinearTransformIsMatrixProduct ==
    [][(call'.op = "Vector.linearTransform" /\ Is3x3(call'.arg)) =>
          /\ ret'.kind = "ref"
          /\ ret'.id \notin DOMAIN heap
          /\ heap'[ret'.id].cls = "Vector"
          /\ heap'[ret'.id].i = RowTimes(call'.arg, 1, heap[call'.self])
          /\ heap'[ret'.id].j = RowTimes(call'.arg, 2, heap[call'.self])
          /\ heap'[ret'.id].k = RowTimes(call'.arg, 3, heap[call'.self])]_vars

\* a 3x3 matrix that is not symmetric was applied, with three different results
C7_Witness ==
    /\ call.op = "Vector.linearTransform"
    /\ Is3x3(call.arg)
    /\ call.arg[1][2] # call.arg[2][1]
    /\ ret.kind = "ref"
    /\ heap[ret.id].i # heap[ret.id].j
    /\ heap[ret.id].j # heap[ret.id].k

AccelerationCalls ==
    {"Physical_Object.calculateAcceleration",
     "classes.Physical_Object.calculateAcceleration"}

\* C5: for a mass m > 0, calculateAcceleration(F) returns F scaled by 1/m
\* (a_c * m = F_c for each component) and leaves the object as it was, in
\* both source files.  (src/classes.py scales F by m.)
C5_AccelerationIsForceOverMass ==
    [][(call'.op \in AccelerationCalls /\ RPos(heap[call'.self].mass)) =>
          LET m == heap[call'.self].mass
              F == heap[call'.arg.id]
          IN  /\ ret'.kind = "ref"
              /\ RMul(heap'[ret'.id].i, m) = F.i
              /\ RMul(heap'[ret'.id].j, m) = F.j
              /\ RMul(heap'[ret'.id].k, m) = F.k
              /\ heap'[call'.self] = heap[call'.self]]_vars

\* magnitude^2 = i^2 + j^2 + k^2 for the Vector o.  With i, j, k = a/l, b/l,
\* c/l and g the gcd of a, b, c, both sides are multiplied by (l/g)^2, which
\* keeps the squares small: (magnitude * l/g)^2 = (a/g)^2 + (b/g)^2 + (c/g)^2
MagnitudeAgrees(o) ==
    LET l == LCM(LCM(o.i[2], o.j[2]), o.k[2])
        a == o.i[1] * (l \div o.i[2])
        b == o.j[1] * (l \div o.j[2])
        c == o.k[1] * (l \div o.k[2])
        g == GCD(GCD(Abs(a), Abs(b)), Abs(c))
    IN  IF g = 0 THEN SurdIsZero(o.magnitude)
        ELSE LET q == RMul(o.magnitude.c, Rat(l, g))
             IN  /\ q[1] >= 0
                 /\ q[1] * q[1] * o.magnitude.r
                      = ((a \div g) * (a \div g) + (b \div g) * (b \div g)
                           + (c \div g) * (c \div g)) * q[2] * q[2]

\* every Vector's tuple view and stored magnitude agree with its i, j, k
VectorsConsistent ==
    \A id \in DOMAIN heap :
        heap[id].cls = "Vector" =>
            /\ heap[id].ijk = <<heap[id].i, heap[id].j, heap[id].k>>
            /\ MagnitudeAgrees(heap[id])

\* C8: a call of any Vector method, or of any Point method but setPoint,
\* leaves every object that existed before it as it was, and what it returns
\* is an object constructed by the call; every Vector's stored magnitude and
\* ijk agree with its i, j, k throughout.
C8_ValueSemantics ==
    /\ []VectorsConsistent
    /\ [][call'.op # "Point.setPoint" =>
             /\ \A id \in DOMAIN heap :
                   id \in DOMAIN heap' /\ heap'[id] = heap[id]
             /\ ret'.kind = "ref" =>
                   ret'.id \in DOMAIN heap' \ DOMAIN heap]_vars

\* a second call was made on an object the first call returned, and it
\* returned a Vector with a component that is not an integer
C8_Witness ==
    /\ ncalls = 2
    /\ call.op = "Vector.vectorProjectionOnVector"
    /\ call.arg.id > 2
    /\ ret.kind = "ref"
    /\ heap[ret.id].i[2] > 1

\* the sum of a Point p and a Vector v, as coordinates
Moved(p, v) == <<RAdd(p.x, v.i), RAdd(p.y, v.j), RAdd(p.z, v.k)>>

\* the ids of the Point and the Vector the ball held when the tick began
TickPosition == IF counter = 0 THEN ball_pos ELSE Len(heap) - 3
TickVelocity == IF counter = 0 THEN ball_vel ELSE Len(heap) - 2

\* C9: in a tick, move() replaces the position by old position + velocity and
\* leaves velocity and mass alone; the velocity update replaces the velocity
\* by old velocity + the Vector given and leaves position and mass alone;
\* so the position after a tick comes from the velocity held before that
\* tick's update; and no Point or Vector that existed before is changed.
C9_TickFrame ==
    /\ [](pc = "count" =>
            /\ heap[heap[ball].position].xyz
                  = Moved(heap[TickPosition], heap[TickVelocity])
            /\ heap[heap[ball].velocity].ijk
                  = <<RAdd(heap[TickVelocity].i, heap[gravity].i),
                      RAdd(heap[TickVelocity].j, heap[gravity].j),
                      RAdd(heap[TickVelocity].k, heap[gravity].k)>>)
    /\ [][/\ \A id \in DOMAIN heap \ {ball} : heap'[id] = heap[id]
          /\ heap'[ball].mass = heap[ball].mass
          /\ pc = "move" =>
                /\ heap'[ball].position \notin DOMAIN heap
                /\ heap'[heap'[ball].position].xyz
                      = Moved(heap[heap[ball].position],
                              heap[heap[ball].velocity])
                /\ heap'[ball].velocity = heap[ball].velocity
          /\ pc = "accelerate" =>
                /\ heap'[ball].velocity \notin DOMAIN heap
                /\ heap'[heap'[ball].velocity].ijk
                      = <<RAdd(heap[heap[ball].velocity].i, heap[gravity].i),
                          RAdd(heap[heap[ball].velocity].j, heap[gravity].j),
                          RAdd(heap[heap[ball].velocity].k, heap[gravity].k)>>
                /\ heap'[ball].position = heap[ball].position]_vars

\* a second tick has moved the ball and updated its velocity
C9_Witness ==
    /\ pc = "count"
    /\ counter >= 1
    /\ heap[heap[ball].velocity].j # heap[ball_vel].j
    /\ heap[heap[ball].position].y # heap[ball_pos].y

\* the ball's height
Height == heap[heap[ball].position].y

\* C10: the loop ends; it runs a tick only while the height is above 0 and
\* stops at the first test that finds it at 0 or below; and the counter is
\* the number of ticks run (each tick constructs one Point and one Vector).
C10_LoopTerminates ==
    /\ <>(pc = "done")
    /\ [](pc = "done" => ~RPos(Height))
    /\ [](pc \in {"while", "done"} => Len(heap) = 5 + 2 * counter)
    /\ [][/\ pc' = "move" => RPos(Height)
          /\ (pc = "while" /\ ~RPos(Height)) => pc' = "done"
          /\ pc = "done" => pc' = "done"]_vars

\* the loop has ended after three ticks or more
C10_Witness ==
    /\ pc = "done"
    /\ counter >= 3

=============================================================================
